---- MODULE Spec2Model ----
(***************************************************************************)
(* A model of the priority queue (priority_queue.c) and of the sorted list *)
(* it is built on (sorted_list.c).  The doubly linked list underneath      *)
(* (dll.h) is modelled by its contract: a list is the sequence of its      *)
(* nodes in traversal order, an iterator is a node or the end sentinel of  *)
(* a list, and every node carries one payload pointer.                     *)
(***************************************************************************)
EXTENDS Integers, Sequences, FiniteSets, TLC

VARIABLES dll, data, cmp, call, old, fault, net, held

vars == <<dll, data, cmp, call, old, fault, net, held>>

\* Bounds of the model: the nodes the heap can hold, and the payload values.
MaxNodes == 3
MaxData == 3

Nodes == 1..MaxNodes
Data == 1..MaxData
Lists == {1, 2}

\* The null pointer, and the queue handle cast to void * (never a payload).
NULLP == 0
QueueHandle == -9
\* The priority queue owns the sorted list 1.
queue == [sorted_list |-> 1]

Range(s) == {s[i] : i \in 1..Len(s)}
InsertAt(s, i, x) == SubSeq(s, 1, i - 1) \o <<x>> \o SubSeq(s, i, Len(s))
RemoveAt(s, i) == SubSeq(s, 1, i - 1) \o SubSeq(s, i + 1, Len(s))

(***************************************************************************)
(* The callbacks a caller supplies.  Payloads are pointers to integers;    *)
(* "asc" and "desc" order them by value, "coarse" by value \div 2, so that *)
(* different payloads can have the same priority.                          *)
(***************************************************************************)
CmpFuncs == {"asc", "desc", "coarse"}
Compare(f, d, new_data) ==
    CASE f = "asc" -> d - new_data
      [] f = "desc" -> new_data - d
      [] OTHER -> (d \div 2) - (new_data \div 2)

\* The action functions: "visit" always succeeds, "failFrom" fails with the
\* payload as its status on a payload at or above the parameter.
ActionFuncs == {"visit", "failFrom"}
\* With "refuse", which fails with the status -1 on a payload at or above the
\* parameter.
StatusFuncs == ActionFuncs \cup {"refuse"}
Action(f, d, parameter) ==
    CASE f = "failFrom" /\ d >= parameter -> d
      [] f = "refuse" /\ d >= parameter -> 0 - 1
      [] OTHER -> 0

MatchFuncs == {"eq", "ge"}
IsMatch(f, d, parameter) ==
    CASE f = "eq" -> IF d = parameter THEN 1 ELSE 0
      [] OTHER -> IF d >= parameter THEN 1 ELSE 0

(***************************************************************************)
(* The linked list engine.  h is a heap: [dll |-> the lists, data |-> the  *)
(* payload of every node].  The end sentinel of list l is the iterator -l. *)
(***************************************************************************)
EndOf(l) == 0 - l
DLLOwner(h, it) ==
    IF it < 0 THEN 0 - it ELSE CHOOSE l \in Lists : it \in Range(h.dll[l])
DLLIndex(h, it) ==
    LET l == DLLOwner(h, it)
    IN  IF it < 0 THEN Len(h.dll[l]) + 1
        ELSE CHOOSE i \in 1..Len(h.dll[l]) : h.dll[l][i] = it
DLLAt(h, l, i) == IF i > Len(h.dll[l]) THEN EndOf(l) ELSE h.dll[l][i]
DLLBegin(h, l) == DLLAt(h, l, 1)
DLLEnd(h, l) == EndOf(l)
DLLNext(h, it) == DLLAt(h, DLLOwner(h, it), DLLIndex(h, it) + 1)
DLLGetData(h, it) == h.data[it]
DLLIsEmpty(h, l) == IF h.dll[l] = <<>> THEN 1 ELSE 0
DLLCount(h, l) == Len(h.dll[l])

FreeNodes(h) == {n \in Nodes : \A l \in Lists : n \notin Range(h.dll[l])}

\* ok: whether the allocation of the node succeeds.  On failure the engine
\* returns the end of the list and changes nothing.
DLLInsertBefore(h, where, x, ok) ==
    LET l == DLLOwner(h, where)
        i == DLLIndex(h, where)
    IN  IF ok /\ FreeNodes(h) # {}
        THEN LET n == CHOOSE m \in FreeNodes(h) : \A k \in FreeNodes(h) : m <= k
             IN  [h |-> [dll |-> [h.dll EXCEPT ![l] = InsertAt(@, i, n)],
                         data |-> [h.data EXCEPT ![n] = x]],
                  ret |-> n]
        ELSE [h |-> h, ret |-> EndOf(l)]

DLLRemove(h, it) ==
    LET l == DLLOwner(h, it)
        i == DLLIndex(h, it)
        nh == [dll |-> [h.dll EXCEPT ![l] = RemoveAt(@, i)],
               data |-> [h.data EXCEPT ![it] = NULLP]]
    IN  [h |-> nh, ret |-> DLLAt(nh, l, i)]

\* Popping an empty list is undefined: u is what the build makes of it, a
\* crash or any pointer value returned with the list left as it was.
UBOutcomes == {[crash |-> TRUE, val |-> NULLP]}
              \cup {[crash |-> FALSE, val |-> v] : v \in {NULLP} \cup Data}
NoUB == [crash |-> FALSE, val |-> NULLP]

DLLPopFront(h, l, u) ==
    IF h.dll[l] = <<>>
    THEN [h |-> h, ret |-> u.val, crash |-> u.crash]
    ELSE LET it == Head(h.dll[l])
         IN  [h |-> DLLRemove(h, it).h, ret |-> h.data[it], crash |-> FALSE]

DLLPopBack(h, l, u) ==
    IF h.dll[l] = <<>>
    THEN [h |-> h, ret |-> u.val, crash |-> u.crash]
    ELSE LET it == h.dll[l][Len(h.dll[l])]
         IN  [h |-> DLLRemove(h, it).h, ret |-> h.data[it], crash |-> FALSE]

\* Moves the nodes [from, to) of their list to just before where.
DLLSplice(h, where, from, to) ==
    LET src == DLLOwner(h, from)
        dst == DLLOwner(h, where)
        a == DLLIndex(h, from)
        b == DLLIndex(h, to)
        run == SubSeq(h.dll[src], a, b - 1)
        rest == SubSeq(h.dll[src], 1, a - 1) \o SubSeq(h.dll[src], b, Len(h.dll[src]))
        w == DLLIndex(h, where)
    IN  [h EXCEPT !.dll = [h.dll EXCEPT
            ![src] = rest,
            ![dst] = SubSeq(h.dll[dst], 1, w - 1) \o run
                     \o SubSeq(h.dll[dst], w, Len(h.dll[dst]))]]

\* Calls action on the positions from from up to to in traversal order until
\* one returns non-zero; visited is the positions it was called on.  Walking
\* past the end of the list without meeting to is undefined: ub.
RECURSIVE DLLForEach(_, _, _, _, _)
DLLForEach(h, from, to, action, parameter) ==
    IF from = to THEN [ret |-> 0, visited |-> <<>>, ub |-> FALSE]
    ELSE IF from < 0 THEN [ret |-> 0, visited |-> <<>>, ub |-> TRUE]
    ELSE LET status == Action(action, DLLGetData(h, from), parameter)
         IN  IF status # 0 THEN [ret |-> status, visited |-> <<from>>, ub |-> FALSE]
             ELSE LET r == DLLForEach(h, DLLNext(h, from), to, action, parameter)
                  IN  [r EXCEPT !.visited = <<from>> \o @]

(***************************************************************************)
(* The sorted list.  A sorted_list_iter_t is [iterator, list]: the engine's*)
(* iterator and the list that issued it.  c is the comparator of the list. *)
(***************************************************************************)
Iter(it, l) == [iterator |-> it, list |-> l]
NullIter == Iter(0, 0)

SortedListBegin(h, l) == Iter(DLLBegin(h, l), l)
SortedListEnd(h, l) == Iter(DLLEnd(h, l), l)
SortedListNext(h, it) == [it EXCEPT !.iterator = DLLNext(h, it.iterator)]
SortedListGetData(h, it) == DLLGetData(h, it.iterator)
SortedListIsEmpty(h, l) == DLLIsEmpty(h, l)
SortedListCount(h, l) == DLLCount(h, l)
SortedListIsEqual(iter1, iter2) == IF iter1.iterator = iter2.iterator THEN 1 ELSE 0

\* The null pointer to a structure.  A structure pointer is the name of the
\* block it points to; live is the set of blocks allocated and not freed.
NullHandle == "NULL"

\* ok: whether the allocation of the engine succeeds.
DLLCreate(ok) ==
    IF ok THEN [ret |-> "dll", live |-> {"dll"}]
    ELSE [ret |-> NullHandle, live |-> {}]

\* A SortedListCreate that does not free the list when the engine fails.
SortedListCreate_Leak(compare, okList, okDll) ==
    IF ~okList THEN [ret |-> NullHandle, live |-> {}, dll |-> NullHandle, cmp |-> ""]
    ELSE LET d == DLLCreate(okDll)
         IN  IF d.ret = NullHandle
             THEN [ret |-> NullHandle, live |-> {"sorted_list"} \cup d.live,
                   dll |-> NullHandle, cmp |-> ""]
             ELSE [ret |-> "sorted_list", live |-> {"sorted_list"} \cup d.live,
                   dll |-> d.ret, cmp |-> compare]

\* okList: whether the malloc of the list succeeds; okDll: whether DLLCreate
\* does.
SortedListCreate(compare, okList, okDll) ==
    IF ~okList THEN [ret |-> NullHandle, live |-> {}, dll |-> NullHandle, cmp |-> ""]
    ELSE LET d == DLLCreate(okDll)
         IN  IF d.ret = NullHandle
             THEN [ret |-> NullHandle, live |-> ({"sorted_list"} \cup d.live) \ {"sorted_list"},
                   dll |-> NullHandle, cmp |-> ""]
             ELSE [ret |-> "sorted_list", live |-> {"sorted_list"} \cup d.live,
                   dll |-> d.ret, cmp |-> compare]

\* The scan of SortedListInsert: the first position whose payload does not
\* compare below the new payload, or the end.
\* A scan that compares the wrong way round.
RECURSIVE InsertScan_Flipped(_, _, _, _, _)
InsertScan_Flipped(h, c, start, end, x) ==
    IF start.iterator # end.iterator /\ 0 < Compare(c, SortedListGetData(h, start), x)
    THEN InsertScan_Flipped(h, c, SortedListNext(h, start), end, x)
    ELSE start

\* A scan that also skips the elements that compare equal.
RECURSIVE InsertScan_SkipTies(_, _, _, _, _)
InsertScan_SkipTies(h, c, start, end, x) ==
    IF start.iterator # end.iterator /\ 0 >= Compare(c, SortedListGetData(h, start), x)
    THEN InsertScan_SkipTies(h, c, SortedListNext(h, start), end, x)
    ELSE start

\* A scan that looks only at the first element.
InsertScan_OneStep(h, c, start, end, x) ==
    IF start.iterator # end.iterator /\ 0 > Compare(c, SortedListGetData(h, start), x)
    THEN SortedListNext(h, start)
    ELSE start

RECURSIVE InsertScan(_, _, _, _, _)
InsertScan(h, c, start, end, x) ==
    IF start.iterator # end.iterator /\ 0 > Compare(c, SortedListGetData(h, start), x)
    THEN InsertScan(h, c, SortedListNext(h, start), end, x)
    ELSE start

\* An insert that does not scan: the new element goes to the front.
SortedListInsert_AtBegin(h, c, l, x, ok) ==
    LET r == DLLInsertBefore(h, DLLBegin(h, l), x, ok)
    IN  [h |-> r.h, ret |-> Iter(r.ret, l)]

\* An insert that does not scan: the new element goes to the back.
SortedListInsert_AtEnd(h, c, l, x, ok) ==
    LET r == DLLInsertBefore(h, DLLEnd(h, l), x, ok)
    IN  [h |-> r.h, ret |-> Iter(r.ret, l)]

SortedListInsert(h, c, l, x, ok) ==
    LET start == InsertScan(h, c, SortedListBegin(h, l), SortedListEnd(h, l), x)
        r == DLLInsertBefore(h, start.iterator, x, ok)
    IN  [h |-> r.h, ret |-> Iter(r.ret, l)]

\* A Remove that returns the beginning of the list.
SortedListRemove_ReturnsBegin(h, it) ==
    LET r == DLLRemove(h, it.iterator)
    IN  [h |-> r.h, ret |-> SortedListBegin(r.h, it.list)]

SortedListRemove(h, it) ==
    LET r == DLLRemove(h, it.iterator)
    IN  [h |-> r.h, ret |-> [it EXCEPT !.iterator = r.ret]]

SortedListPopFront(h, l, u) == DLLPopFront(h, l, u)
\* A PopBack that pops at the front.
SortedListPopBack_Front(h, l, u) == DLLPopFront(h, l, u)
SortedListPopBack(h, l, u) == DLLPopBack(h, l, u)

\* The assertion of SortedListFind and SortedListFindIf that from and to
\* belong to the same list; a build with NDEBUG leaves it out.
SameListAssert(ndebug, from, to) == ndebug \/ from.list = to.list

\* A search that walks on while the element compares below the parameter.
RECURSIVE SortedListFind_WhileBelow(_, _, _, _, _)
SortedListFind_WhileBelow(h, c, from, to, parameter) ==
    IF from.iterator # to.iterator /\ 0 > Compare(c, SortedListGetData(h, from), parameter)
    THEN SortedListFind_WhileBelow(h, c, SortedListNext(h, from), to, parameter)
    ELSE from

\* A search that walks on until an element compares equal to the parameter.
RECURSIVE SortedListFind_UntilEqual(_, _, _, _, _)
SortedListFind_UntilEqual(h, c, from, to, parameter) ==
    IF from.iterator # to.iterator /\ 0 # Compare(c, SortedListGetData(h, from), parameter)
    THEN SortedListFind_UntilEqual(h, c, SortedListNext(h, from), to, parameter)
    ELSE from

\* c is list->cmp; target starts at from.
RECURSIVE SortedListFind(_, _, _, _, _)
SortedListFind(h, c, from, to, parameter) ==
    IF from.iterator # to.iterator /\ 0 < Compare(c, SortedListGetData(h, from), parameter)
    THEN SortedListFind(h, c, SortedListNext(h, from), to, parameter)
    ELSE from

\* A search that does not stop at to: it runs to the end of the list.
RECURSIVE SortedListFindIf_PastTo(_, _, _, _, _)
SortedListFindIf_PastTo(h, from, to, match, parameter) ==
    IF from.iterator < 0 THEN to
    ELSE IF IsMatch(match, SortedListGetData(h, from), parameter) # 0 THEN from
    ELSE SortedListFindIf_PastTo(h, SortedListNext(h, from), to, match, parameter)

\* A search that keeps going and returns the last match of the range.
RECURSIVE SortedListFindIf_Last(_, _, _, _, _)
SortedListFindIf_Last(h, from, to, match, parameter) ==
    IF from.iterator = to.iterator THEN to
    ELSE LET later == SortedListFindIf_Last(h, SortedListNext(h, from), to, match, parameter)
         IN  IF later.iterator # to.iterator THEN later
             ELSE IF IsMatch(match, SortedListGetData(h, from), parameter) # 0 THEN from
             ELSE to

RECURSIVE SortedListFindIf(_, _, _, _, _)
SortedListFindIf(h, from, to, match, parameter) ==
    IF from.iterator = to.iterator THEN to
    ELSE IF IsMatch(match, SortedListGetData(h, from), parameter) # 0 THEN from
    ELSE SortedListFindIf(h, SortedListNext(h, from), to, match, parameter)

\* The number of times the loop of SortedListFindIf calls match.
RECURSIVE FindIfMatchCalls(_, _, _, _, _)
FindIfMatchCalls(h, from, to, match, parameter) ==
    IF from.iterator = to.iterator THEN 0
    ELSE IF IsMatch(match, SortedListGetData(h, from), parameter) # 0 THEN 1
    ELSE 1 + FindIfMatchCalls(h, SortedListNext(h, from), to, match, parameter)

\* A ForEach that starts at the beginning of the list of from.
SortedListForEach_FromBegin(h, ndebug, from, to, action, parameter) ==
    DLLForEach(h, DLLBegin(h, from.list), to.iterator, action, parameter)

\* A ForEach that compares the lists of from and to in no build.
SortedListForEach_NoCheck(h, ndebug, from, to, action, parameter) ==
    DLLForEach(h, from.iterator, to.iterator, action, parameter)

\* ndebug: the build defines NDEBUG.  Without it the list of from and the
\* list of to are compared first.
SortedListForEach(h, ndebug, from, to, action, parameter) ==
    IF ~ndebug /\ from.list # to.list
    THEN [ret |-> 0 - 1, visited |-> <<>>, ub |-> FALSE]
    ELSE DLLForEach(h, from.iterator, to.iterator, action, parameter)

\* The two inner loops and the outer loop of SortedListMerge.  runner walks
\* dest, [from, to) is the run of source spliced in before runner; n counts
\* the splices.  An iteration that splices nothing leaves every cursor and
\* both lists as they were, so the loop then never ends: hang.
\* A runner loop that always runs to the end of dest.
MergeRunner_ToEnd(h, c, dest, runner, from) == DLLEnd(h, dest)

RECURSIVE MergeRunner(_, _, _, _, _)
MergeRunner(h, c, dest, runner, from) ==
    IF runner # DLLEnd(h, dest) /\ 0 >= Compare(c, DLLGetData(h, runner), DLLGetData(h, from))
    THEN MergeRunner(h, c, dest, DLLNext(h, runner), from)
    ELSE runner

\* A to loop that forgets the comparison and runs to the end of source.
MergeTo_NoCompare(h, c, source, to, runner) == DLLEnd(h, source)

\* A to loop that never advances.
MergeTo_Stay(h, c, source, to, runner) == to

RECURSIVE MergeTo(_, _, _, _, _)
MergeTo(h, c, source, to, runner) ==
    IF to # DLLEnd(h, source) /\ 0 > Compare(c, DLLGetData(h, to), DLLGetData(h, runner))
    THEN MergeTo(h, c, source, DLLNext(h, to), runner)
    ELSE to

\* A loop that, with runner at the end of dest, moves one element of source
\* in each iteration.
RECURSIVE MergeLoop_OneAtEnd(_, _, _, _, _, _, _, _)
MergeLoop_OneAtEnd(h, c, dest, source, runner, from, to, n) ==
    IF from = DLLEnd(h, source) THEN [h |-> h, hang |-> FALSE, n |-> n]
    ELSE LET r == MergeRunner(h, c, dest, runner, from)
             t == IF r = DLLEnd(h, dest) THEN DLLNext(h, from)
                  ELSE MergeTo(h, c, source, to, r)
             nh == DLLSplice(h, r, from, t)
         IN  IF t = from THEN [h |-> h, hang |-> TRUE, n |-> n]
             ELSE MergeLoop_OneAtEnd(nh, c, dest, source, r, DLLBegin(nh, source), t, n + 1)

RECURSIVE MergeLoop(_, _, _, _, _, _, _, _)
MergeLoop(h, c, dest, source, runner, from, to, n) ==
    IF from = DLLEnd(h, source) THEN [h |-> h, hang |-> FALSE, n |-> n]
    ELSE LET r == MergeRunner(h, c, dest, runner, from)
             t == IF r = DLLEnd(h, dest) THEN DLLEnd(h, source)
                  ELSE MergeTo(h, c, source, to, r)
             nh == DLLSplice(h, r, from, t)
         IN  IF t = from THEN [h |-> h, hang |-> TRUE, n |-> n]
             ELSE MergeLoop(nh, c, dest, source, r, DLLBegin(nh, source), t, n + 1)

\* Iterations in which runner goes back to the beginning of dest each time.
RECURSIVE MergeSteps_Rewind(_, _, _, _, _, _, _)
MergeSteps_Rewind(h, c, dest, source, runner, from, to) ==
    IF from = DLLEnd(h, source) THEN <<>>
    ELSE LET r == MergeRunner(h, c, dest, DLLBegin(h, dest), from)
             t == IF r = DLLEnd(h, dest) THEN DLLEnd(h, source)
                  ELSE MergeTo(h, c, source, to, r)
             nh == DLLSplice(h, r, from, t)
             step == [h |-> h, start |-> DLLBegin(h, dest), from |-> from, to0 |-> to,
                      runner |-> r, to |-> t, after |-> nh]
         IN  IF t = from THEN <<step>>
             ELSE <<step>> \o MergeSteps_Rewind(nh, c, dest, source, r,
                                                DLLBegin(nh, source), t)

\* The iterations of the outer loop of SortedListMerge, one record each: h is
\* the heap and start, from and to0 the cursors runner, from and to when the
\* iteration begins, runner and to the cursors when DLLSplice is called, and
\* after the heap that call leaves.  The last record is the iteration that
\* hangs, if one does.
RECURSIVE MergeSteps(_, _, _, _, _, _, _)
MergeSteps(h, c, dest, source, runner, from, to) ==
    IF from = DLLEnd(h, source) THEN <<>>
    ELSE LET r == MergeRunner(h, c, dest, runner, from)
             t == IF r = DLLEnd(h, dest) THEN DLLEnd(h, source)
                  ELSE MergeTo(h, c, source, to, r)
             nh == DLLSplice(h, r, from, t)
             step == [h |-> h, start |-> runner, from |-> from, to0 |-> to,
                      runner |-> r, to |-> t, after |-> nh]
         IN  IF t = from THEN <<step>>
             ELSE <<step>> \o MergeSteps(nh, c, dest, source, r, DLLBegin(nh, source), t)

\* A merge that moves the elements of source one by one, each to the place
\* SortedListInsert would give it.
RECURSIVE SortedListMerge_ByInsert(_, _, _, _)
SortedListMerge_ByInsert(h, c, dest, source) ==
    IF h.dll[source] = <<>> THEN [h |-> h, hang |-> FALSE, n |-> 0]
    ELSE LET from == DLLBegin(h, source)
             where == InsertScan(h, c, SortedListBegin(h, dest), SortedListEnd(h, dest),
                                 DLLGetData(h, from))
             nh == DLLSplice(h, where.iterator, from, DLLNext(h, from))
             r == SortedListMerge_ByInsert(nh, c, dest, source)
         IN  [r EXCEPT !.n = @ + 1]

\* A merge that puts the elements of source before the elements of dest that
\* compare equal to them: from the last element of source to the first, each
\* goes before the first element of dest that does not compare below it.
RECURSIVE SortedListMerge_SourceFirst(_, _, _, _)
SortedListMerge_SourceFirst(h, c, dest, source) ==
    IF h.dll[source] = <<>> THEN [h |-> h, hang |-> FALSE, n |-> 0]
    ELSE LET from == h.dll[source][Len(h.dll[source])]
             where == InsertScan(h, c, SortedListBegin(h, dest), SortedListEnd(h, dest),
                                 DLLGetData(h, from))
             nh == DLLSplice(h, where.iterator, from, DLLNext(h, from))
             r == SortedListMerge_SourceFirst(nh, c, dest, source)
         IN  [r EXCEPT !.n = @ + 1]

SortedListMerge(h, c, dest, source) ==
    MergeLoop(h, c, dest, source, DLLBegin(h, dest), DLLBegin(h, source),
              DLLBegin(h, source), 0)

(***************************************************************************)
(* The priority queue.                                                     *)
(***************************************************************************)
\* okQueue: whether the malloc of the queue succeeds.
PriorityQueueCreate(compare, okQueue, okList, okDll) ==
    IF ~okQueue
    THEN [ret |-> NullHandle, live |-> {}, sorted_list |-> NullHandle,
          dll |-> NullHandle, cmp |-> ""]
    ELSE LET l == SortedListCreate(compare, okList, okDll)
         IN  IF l.ret = NullHandle
             THEN [ret |-> NullHandle, live |-> ({"priority_queue"} \cup l.live) \ {"priority_queue"},
                   sorted_list |-> NullHandle, dll |-> NullHandle, cmp |-> ""]
             ELSE [ret |-> "priority_queue", live |-> {"priority_queue"} \cup l.live,
                   sorted_list |-> l.ret, dll |-> l.dll, cmp |-> l.cmp]

\* An Enqueue that does not look at what the insertion returned.
PriorityQueueEnqueue_AlwaysZero(h, c, x, ok) ==
    LET insert == SortedListInsert(h, c, queue.sorted_list, x, ok)
    IN  [h |-> insert.h, iter |-> insert.ret, ret |-> 0]

PriorityQueueEnqueue(h, c, x, ok) ==
    LET insert == SortedListInsert(h, c, queue.sorted_list, x, ok)
    IN  [h |-> insert.h, iter |-> insert.ret,
         ret |-> SortedListIsEqual(SortedListEnd(insert.h, queue.sorted_list), insert.ret)]

\* A Dequeue that returns the front payload and leaves the element queued.
PriorityQueueDequeue_NoRemove(h, u) ==
    [SortedListPopFront(h, queue.sorted_list, u) EXCEPT !.h = h]

PriorityQueueDequeue(h, u) == SortedListPopFront(h, queue.sorted_list, u)

\* An Erase that returns NULL when nothing matches.
PriorityQueueErase_NullOnMiss(h, ismatch, parameter) ==
    LET result == SortedListFindIf(h, SortedListBegin(h, queue.sorted_list),
                                   SortedListEnd(h, queue.sorted_list), ismatch, parameter)
    IN  IF SortedListIsEqual(result, SortedListEnd(h, queue.sorted_list)) # 0
        THEN [h |-> h, iter |-> result, ret |-> NULLP]
        ELSE [h |-> SortedListRemove(h, result).h, iter |-> result,
              ret |-> SortedListGetData(h, result)]

\* An Erase that removes the match and returns the payload at the front.
PriorityQueueErase_ReturnsFront(h, ismatch, parameter) ==
    LET result == SortedListFindIf(h, SortedListBegin(h, queue.sorted_list),
                                   SortedListEnd(h, queue.sorted_list), ismatch, parameter)
    IN  IF SortedListIsEqual(result, SortedListEnd(h, queue.sorted_list)) # 0
        THEN [h |-> h, iter |-> result, ret |-> QueueHandle]
        ELSE [h |-> SortedListRemove(h, result).h, iter |-> result,
              ret |-> SortedListGetData(h, SortedListBegin(h, queue.sorted_list))]

PriorityQueueErase(h, ismatch, parameter) ==
    LET result == SortedListFindIf(h, SortedListBegin(h, queue.sorted_list),
                                   SortedListEnd(h, queue.sorted_list), ismatch, parameter)
    IN  IF SortedListIsEqual(result, SortedListEnd(h, queue.sorted_list)) # 0
        THEN [h |-> h, iter |-> result, ret |-> QueueHandle]
        ELSE [h |-> SortedListRemove(h, result).h, iter |-> result,
              ret |-> SortedListGetData(h, result)]

\* A Peek that reads the element at the back of the queue.
PriorityQueuePeek_Back(h, u) ==
    LET l == h.dll[queue.sorted_list]
    IN  IF l = <<>> THEN [ret |-> u.val, crash |-> u.crash]
        ELSE [ret |-> h.data[l[Len(l)]], crash |-> FALSE]

\* Reading the payload of the end sentinel (an empty queue) is undefined: u.
PriorityQueuePeek(h, u) ==
    LET begin == SortedListBegin(h, queue.sorted_list)
    IN  IF begin.iterator < 0 THEN [ret |-> u.val, crash |-> u.crash]
        ELSE [ret |-> SortedListGetData(h, begin), crash |-> FALSE]

\* A Clear that pops once instead of looping.
PriorityQueueClear_PopOnce(h, n) ==
    IF SortedListIsEmpty(h, queue.sorted_list) # 0 THEN [h |-> h, n |-> n]
    ELSE [h |-> SortedListPopFront(h, queue.sorted_list, NoUB).h, n |-> n + 1]

RECURSIVE PriorityQueueClear(_, _)
PriorityQueueClear(h, n) ==
    IF SortedListIsEmpty(h, queue.sorted_list) # 0 THEN [h |-> h, n |-> n]
    ELSE PriorityQueueClear(SortedListPopFront(h, queue.sorted_list, NoUB).h, n + 1)

PriorityQueueIsEmpty(h) == SortedListIsEmpty(h, queue.sorted_list)
PriorityQueueSize(h) == SortedListCount(h, queue.sorted_list)

(***************************************************************************)
(* State.  call is the last call made and what it returned; old is the     *)
(* heap that call started from; fault is "crash" once undefined behaviour  *)
(* has ended the program, "hang" once a loop runs forever.                 *)
(*                                                                         *)
(* net and held are the books of the caller of the priority queue, kept    *)
(* from what its calls were given and returned: net is the number of       *)
(* successful Enqueues minus the number of elements removed, held[x] the   *)
(* number of times payload x was enqueued minus the times it was removed.  *)
(*                                                                         *)
(* The address of a node is opaque to the program, so between calls the    *)
(* nodes are renamed to a canonical numbering: the nodes of list 1 in      *)
(* order, then those of list 2, then the nodes the call freed, then the    *)
(* unused ones.  old and the iterator in call are renamed with them, so    *)
(* a node has the same name in old and in the state after the call.        *)
(***************************************************************************)
Heap == [dll |-> dll, data |-> data]
\* op: the function called; list: its list; arg: its payload or parameter (for
\* Merge, the source list); fn: its match function; iter: the iterator it
\* got or returned; ret: its return value; n: the iterations of its loop;
\* ok: whether an allocation it made was allowed to succeed.
Call(op, l, arg, fn, iter, ret, n, ok) ==
    [op |-> op, list |-> l, arg |-> arg, fn |-> fn, iter |-> iter, ret |-> ret,
     n |-> n, ok |-> ok]

\* The record of a call on the range [from, to) of list l; from and to are
\* the places of the two iterators in traversal order.
RangeCall(op, l, from, to, arg, fn, iter, n) ==
    [op |-> op, list |-> l, arg |-> arg, fn |-> fn, iter |-> iter, ret |-> NULLP,
     n |-> n, ok |-> TRUE, from |-> from, to |-> to]

\* The record of a call of SortedListForEach: ret is the status it returned,
\* visited the positions action was called on, in the order of the calls.
ForEachCall(l, from, to, arg, fn, r) ==
    [op |-> "ForEach", list |-> l, arg |-> arg, fn |-> fn, iter |-> NullIter,
     ret |-> r.ret, n |-> Len(r.visited), ok |-> TRUE, from |-> from, to |-> to,
     visited |-> r.visited]

\* The record of a range call whose from is at place from of list l and whose
\* to is at place to of list m.
AcrossCall(op, l, m, from, to, arg, fn, ret) ==
    [op |-> op, list |-> l, tolist |-> m, arg |-> arg, fn |-> fn, iter |-> NullIter,
     ret |-> ret, n |-> 0, ok |-> TRUE, from |-> from, to |-> to]

\* The record of a call of SortedListForEach made in the build ndebug, with
\* from at place from of list l and to at place to of list m: visited is the
\* positions action was called on and ub whether the walk left the list.
BuildCall(l, m, from, to, arg, fn, ndebug, r) ==
    [op |-> "ForEach", list |-> l, tolist |-> m, arg |-> arg, fn |-> fn, iter |-> NullIter,
     ret |-> r.ret, n |-> Len(r.visited), ok |-> TRUE, from |-> from, to |-> to,
     visited |-> r.visited, ndebug |-> ndebug, ub |-> r.ub]

\* The record of a call of PriorityQueueCreate or SortedListCreate for list l:
\* arg is the comparator, ret the handle returned, live the blocks the call
\* left allocated, sorted_list and dll the pointers stored in the structures.
CreateCall(op, l, compare, r, sorted_list, okQueue, okList, okDll) ==
    [op |-> op, list |-> l, arg |-> compare, fn |-> "", iter |-> NullIter, ret |-> r.ret,
     n |-> 0, ok |-> okQueue /\ okList /\ okDll, live |-> r.live,
     sorted_list |-> sorted_list, dll |-> r.dll,
     okQueue |-> okQueue, okList |-> okList, okDll |-> okDll]

Canon(h, o) ==
    LET live == h.dll[1] \o h.dll[2]
        dead == SelectSeq(o.dll[1] \o o.dll[2], LAMBDA n : n \notin Range(live))
        ord == live \o dead
        used == Range(ord)
    IN  [n \in Nodes |->
            IF n \in used THEN CHOOSE i \in 1..Len(ord) : ord[i] = n
            ELSE Len(ord) + Cardinality({m \in Nodes \ used : m <= n})]

Rename(h, p) ==
    [dll |-> [l \in Lists |-> [i \in 1..Len(h.dll[l]) |-> p[h.dll[l][i]]]],
     data |-> [n \in Nodes |-> h.data[CHOOSE m \in Nodes : p[m] = n]]]

\* What the call c, made on the heap Heap, adds to net: 1 for an Enqueue that
\* returned 0, -1 for a Dequeue of a non-empty queue and for an Erase that
\* returned a payload, minus the pops of a Clear.
Booked(c) ==
    CASE c.op = "Enqueue" /\ c.ret = 0 -> 1
      [] c.op = "Dequeue" /\ PriorityQueueIsEmpty(Heap) = 0 -> 0 - 1
      [] c.op = "Erase" /\ c.ret \in Data -> 0 - 1
      [] c.op = "Clear" -> 0 - c.n
      [] OTHER -> 0

\* held after the call c: the payload enqueued is added, the payload a
\* Dequeue or an Erase returned is taken out, a Clear drops everything.
HeldAfter(c) ==
    CASE c.op = "Enqueue" /\ c.ret = 0 -> [held EXCEPT ![c.arg] = @ + 1]
      [] c.op = "Dequeue" /\ PriorityQueueIsEmpty(Heap) = 0 /\ c.ret \in Data ->
             [held EXCEPT ![c.ret] = @ - 1]
      [] c.op = "Erase" /\ c.ret \in Data -> [held EXCEPT ![c.ret] = @ - 1]
      [] c.op = "Clear" -> [x \in Data |-> 0]
      [] OTHER -> held

\* The state after a call that leaves the heap h, the record c and fault f.
Return(h, c, f) ==
    \E p \in {Canon(h, Heap)} :
        \E nh \in {Rename(h, p)} :
            /\ dll' = nh.dll
            /\ data' = nh.data
            /\ old' = Rename(Heap, p)
            /\ call' = [c EXCEPT !.iter.iterator = IF @ > 0 THEN p[@] ELSE @]
            /\ fault' = f
            /\ net' = net + Booked(c)
            /\ held' = HeldAfter(c)
            /\ UNCHANGED cmp

\* The state after a call that changed nothing and returned the record c:
\* Return(Heap, c, "none"), where the renaming is the identity.
Observe(c) ==
    /\ call' = c
    /\ old' = Heap
    /\ UNCHANGED <<dll, data, cmp, fault, net, held>>

\* The state after a call that changed no list, returned the record c and
\* left the fault f: Return(Heap, c, f), where the renaming is the identity.
ObserveWith(c, f) ==
    /\ call' = c
    /\ old' = Heap
    /\ fault' = f
    /\ UNCHANGED <<dll, data, cmp, net, held>>

Init ==
    /\ dll = [l \in Lists |-> <<>>]
    /\ data = [n \in Nodes |-> NULLP]
    /\ \E c \in CmpFuncs : cmp = [l \in Lists |-> c]
    /\ call = Call("Create", 0, NULLP, "", NullIter, NULLP, 0, TRUE)
    /\ old = [dll |-> dll, data |-> data]
    /\ fault = "none"
    /\ net = 0
    /\ held = [x \in Data |-> 0]

Enqueue ==
    /\ fault = "none"
    /\ \E x \in Data, ok \in BOOLEAN :
         \E r \in {PriorityQueueEnqueue(Heap, cmp[queue.sorted_list], x, ok)} :
             Return(r.h, Call("Enqueue", queue.sorted_list, x, "", r.iter, r.ret, 0, ok), "none")

Dequeue ==
    /\ fault = "none"
    /\ \E u \in (IF dll[queue.sorted_list] = <<>> THEN UBOutcomes ELSE {NoUB}) :
         \E r \in {PriorityQueueDequeue(Heap, u)} :
             Return(r.h, Call("Dequeue", queue.sorted_list, NULLP, "", NullIter, r.ret, 0, TRUE),
                    IF r.crash THEN "crash" ELSE "none")

Erase ==
    /\ fault = "none"
    /\ \E ismatch \in MatchFuncs, parameter \in Data :
         \E r \in {PriorityQueueErase(Heap, ismatch, parameter)} :
             Return(r.h, Call("Erase", queue.sorted_list, parameter, ismatch, r.iter, r.ret, 0, TRUE),
                    "none")

Peek ==
    /\ fault = "none"
    /\ \E u \in (IF dll[queue.sorted_list] = <<>> THEN UBOutcomes ELSE {NoUB}) :
         \E r \in {PriorityQueuePeek(Heap, u)} :
             Return(Heap, Call("Peek", queue.sorted_list, NULLP, "", NullIter, r.ret, 0, TRUE),
                    IF r.crash THEN "crash" ELSE "none")

IsEmpty ==
    /\ fault = "none"
    /\ Return(Heap, Call("IsEmpty", queue.sorted_list, NULLP, "", NullIter,
                         PriorityQueueIsEmpty(Heap), 0, TRUE), "none")

Size ==
    /\ fault = "none"
    /\ Return(Heap, Call("Size", queue.sorted_list, NULLP, "", NullIter,
                         PriorityQueueSize(Heap), 0, TRUE), "none")

Clear ==
    /\ fault = "none"
    /\ \E r \in {PriorityQueueClear(Heap, 0)} :
         Return(r.h, Call("Clear", queue.sorted_list, NULLP, "", NullIter, NULLP, r.n, TRUE), "none")

Next == Enqueue \/ Dequeue \/ Peek \/ IsEmpty \/ Size \/ Erase \/ Clear

Spec == Init /\ [][Next]_vars

(***************************************************************************)
(* The sorted list used directly: two lists with the same comparator.      *)
(* Remove is given an iterator of an element, and call.arg is the place of *)
(* that element in its list; PopFront and PopBack are called on a          *)
(* non-empty list, as their contract asks.                                 *)
(***************************************************************************)
Insert ==
    /\ fault = "none"
    /\ \E l \in Lists, x \in Data, ok \in BOOLEAN :
         \E r \in {SortedListInsert(Heap, cmp[l], l, x, ok)} :
             Return(r.h, Call("Insert", l, x, "", r.ret, NULLP, 0, ok), "none")

Remove ==
    /\ fault = "none"
    /\ \E l \in Lists : \E it \in Range(dll[l]) :
         \E r \in {SortedListRemove(Heap, Iter(it, l))} :
             Return(r.h, Call("Remove", l, DLLIndex(Heap, it), "", r.ret, NULLP, 0, TRUE),
                    "none")

PopFront ==
    /\ fault = "none"
    /\ \E l \in Lists :
         /\ dll[l] # <<>>
         /\ \E r \in {SortedListPopFront(Heap, l, NoUB)} :
                Return(r.h, Call("PopFront", l, NULLP, "", NullIter, r.ret, 0, TRUE), "none")

PopBack ==
    /\ fault = "none"
    /\ \E l \in Lists :
         /\ dll[l] # <<>>
         /\ \E r \in {SortedListPopBack(Heap, l, NoUB)} :
                Return(r.h, Call("PopBack", l, NULLP, "", NullIter, r.ret, 0, TRUE), "none")

\* call.list is dest and call.arg is source.
Merge ==
    /\ fault = "none"
    /\ \E dest \in Lists, source \in Lists :
         /\ dest # source
         /\ cmp[dest] = cmp[source]
         /\ \E r \in {SortedListMerge(Heap, cmp[dest], dest, source)} :
                Return(r.h, Call("Merge", dest, source, "", NullIter, NULLP, r.n, TRUE),
                       IF r.hang THEN "hang" ELSE "none")

NextSL == Insert \/ Remove \/ PopFront \/ PopBack \/ Merge

SpecSL == Init /\ [][NextSL]_vars

(***************************************************************************)
(* The searches of the sorted list, on lists that Insert built.  from and  *)
(* to are iterators of the same list with to at or after from, as the      *)
(* contract asks.  InsertThenRemove is the caller's expression             *)
(* SortedListRemove(SortedListInsert(list, data)) with memory available.   *)
(* None of them changes a list: the caller builds the lists with Insert    *)
(* (Build) and then looks once at the list it inserted into last.          *)
(***************************************************************************)
Built == call.op \in {"Create", "Insert"}

Build == Built /\ Insert

InsertThenRemove ==
    /\ fault = "none"
    /\ call.op = "Insert"
    /\ FreeNodes(Heap) # {}
    /\ \E l \in {call.list}, x \in Data :
         \E ins \in {SortedListInsert(Heap, cmp[l], l, x, TRUE)} :
             \E r \in {SortedListRemove(ins.h, ins.ret)} :
                 Return(r.h, Call("InsertThenRemove", l, x, "", r.ret, NULLP, 0, TRUE), "none")

Find ==
    /\ fault = "none"
    /\ call.op = "Insert"
    /\ \E l \in {call.list}, parameter \in Data :
         \E i \in 1..(Len(dll[l]) + 1) : \E j \in i..(Len(dll[l]) + 1) :
             \E r \in {SortedListFind(Heap, cmp[l], Iter(DLLAt(Heap, l, i), l),
                                       Iter(DLLAt(Heap, l, j), l), parameter)} :
                 Observe(RangeCall("Find", l, i, j, parameter, "", r, 0))

FindIf ==
    /\ fault = "none"
    /\ call.op = "Insert"
    /\ \E l \in {call.list}, match \in MatchFuncs, parameter \in Data :
         \E i \in 1..(Len(dll[l]) + 1) : \E j \in i..(Len(dll[l]) + 1) :
             \E from \in {Iter(DLLAt(Heap, l, i), l)}, to \in {Iter(DLLAt(Heap, l, j), l)} :
                 Observe(RangeCall("FindIf", l, i, j, parameter, match,
                                   SortedListFindIf(Heap, from, to, match, parameter),
                                   FindIfMatchCalls(Heap, from, to, match, parameter)))

ForEach ==
    /\ fault = "none"
    /\ call.op = "Insert"
    /\ \E l \in {call.list}, action \in ActionFuncs, parameter \in Data, ndebug \in BOOLEAN :
         \E i \in 1..(Len(dll[l]) + 1) : \E j \in i..(Len(dll[l]) + 1) :
             \E r \in {SortedListForEach(Heap, ndebug, Iter(DLLAt(Heap, l, i), l),
                                          Iter(DLLAt(Heap, l, j), l), action, parameter)} :
                 Observe(ForEachCall(l, i, j, parameter, action, r))

NextIter == Build \/ InsertThenRemove \/ Find \/ FindIf \/ ForEach

SpecIter == Init /\ [][NextIter]_vars

(***************************************************************************)
(* The validated build (NDEBUG not defined), with a caller that passes a   *)
(* from of the list it inserted into last and a to of the other list.  A   *)
(* failed assertion ends the program: fault is "abort".                    *)
(***************************************************************************)
FindAcross ==
    /\ fault = "none"
    /\ call.op = "Insert"
    /\ \E l \in {call.list}, parameter \in Data :
         \E m \in Lists \ {l} :
             \E i \in 1..(Len(dll[l]) + 1), j \in 1..(Len(dll[m]) + 1) :
                 Return(Heap, AcrossCall("Find", l, m, i, j, parameter, "", NULLP),
                        IF SameListAssert(FALSE, Iter(DLLAt(Heap, l, i), l),
                                          Iter(DLLAt(Heap, m, j), m))
                        THEN "none" ELSE "abort")

FindIfAcross ==
    /\ fault = "none"
    /\ call.op = "Insert"
    /\ \E l \in {call.list}, match \in MatchFuncs, parameter \in Data :
         \E m \in Lists \ {l} :
             \E i \in 1..(Len(dll[l]) + 1), j \in 1..(Len(dll[m]) + 1) :
                 Return(Heap, AcrossCall("FindIf", l, m, i, j, parameter, match, NULLP),
                        IF SameListAssert(FALSE, Iter(DLLAt(Heap, l, i), l),
                                          Iter(DLLAt(Heap, m, j), m))
                        THEN "none" ELSE "abort")

ForEachAcross ==
    /\ fault = "none"
    /\ call.op = "Insert"
    /\ \E l \in {call.list}, action \in ActionFuncs, parameter \in Data :
         \E m \in Lists \ {l} :
             \E i \in 1..(Len(dll[l]) + 1), j \in 1..(Len(dll[m]) + 1) :
                 \E r \in {SortedListForEach(Heap, FALSE, Iter(DLLAt(Heap, l, i), l),
                                              Iter(DLLAt(Heap, m, j), m), action, parameter)} :
                     Return(Heap, AcrossCall("ForEach", l, m, i, j, parameter, action, r.ret),
                            IF r.ub THEN "crash" ELSE "none")

NextDebug == Build \/ FindAcross \/ FindIfAcross \/ ForEachAcross

SpecDebug == Init /\ [][NextDebug]_vars

(***************************************************************************)
(* SortedListForEach in both builds, with actions that can fail with the   *)
(* status -1.  ForEachMixed passes a from of the list inserted into last   *)
(* and a to of the other list; ForEachRefused passes a range of one list.  *)
(* A walk that leaves the list is undefined: fault is "crash".             *)
(***************************************************************************)
ForEachMixed ==
    /\ fault = "none"
    /\ call.op = "Insert"
    /\ \E l \in {call.list}, action \in StatusFuncs, parameter \in Data, ndebug \in BOOLEAN :
         \E m \in Lists \ {l} :
             \E i \in 1..(Len(dll[l]) + 1), j \in 1..(Len(dll[m]) + 1) :
                 \E r \in {SortedListForEach(Heap, ndebug, Iter(DLLAt(Heap, l, i), l),
                                              Iter(DLLAt(Heap, m, j), m), action, parameter)} :
                     ObserveWith(BuildCall(l, m, i, j, parameter, action, ndebug, r),
                                 IF r.ub THEN "crash" ELSE "none")

ForEachRefused ==
    /\ fault = "none"
    /\ call.op = "Insert"
    /\ \E l \in {call.list}, parameter \in Data, ndebug \in BOOLEAN :
         \E i \in 1..(Len(dll[l]) + 1) : \E j \in i..(Len(dll[l]) + 1) :
             \E r \in {SortedListForEach(Heap, ndebug, Iter(DLLAt(Heap, l, i), l),
                                          Iter(DLLAt(Heap, l, j), l), "refuse", parameter)} :
                 ObserveWith(BuildCall(l, l, i, j, parameter, "refuse", ndebug, r),
                             IF r.ub THEN "crash" ELSE "none")

NextForEach == Build \/ ForEachMixed \/ ForEachRefused

SpecForEach == Init /\ [][NextForEach]_vars

(***************************************************************************)
(* Construction.  Nothing exists at first: a list without a comparator has *)
(* not been created.  PriorityQueueCreate makes the queue and its list 1,  *)
(* SortedListCreate makes list 2; a Create that failed can be tried again, *)
(* and the queue is used once it exists.                                   *)
(***************************************************************************)
InitCreate ==
    /\ dll = [l \in Lists |-> <<>>]
    /\ data = [n \in Nodes |-> NULLP]
    /\ cmp = [l \in Lists |-> ""]
    /\ call = Call("Start", 0, NULLP, "", NullIter, NULLP, 0, TRUE)
    /\ old = [dll |-> dll, data |-> data]
    /\ fault = "none"
    /\ net = 0
    /\ held = [x \in Data |-> 0]

CreateQueue ==
    /\ fault = "none"
    /\ cmp[queue.sorted_list] = ""
    /\ \E compare \in CmpFuncs, okQueue \in BOOLEAN, okList \in BOOLEAN, okDll \in BOOLEAN :
         \E r \in {PriorityQueueCreate(compare, okQueue, okList, okDll)} :
             /\ call' = CreateCall("PriorityQueueCreate", queue.sorted_list, compare, r,
                                   r.sorted_list, okQueue, okList, okDll)
             /\ cmp' = IF r.ret = NullHandle THEN cmp
                       ELSE [cmp EXCEPT ![queue.sorted_list] = r.cmp]
             /\ old' = Heap
             /\ UNCHANGED <<dll, data, fault, net, held>>

CreateList ==
    /\ fault = "none"
    /\ \E l \in Lists \ {queue.sorted_list} :
         /\ cmp[l] = ""
         /\ \E compare \in CmpFuncs, okList \in BOOLEAN, okDll \in BOOLEAN :
              \E r \in {SortedListCreate(compare, okList, okDll)} :
                  /\ call' = CreateCall("SortedListCreate", l, compare, r, r.ret,
                                        TRUE, okList, okDll)
                  /\ cmp' = IF r.ret = NullHandle THEN cmp ELSE [cmp EXCEPT ![l] = r.cmp]
                  /\ old' = Heap
                  /\ UNCHANGED <<dll, data, fault, net, held>>

UseQueue == cmp[queue.sorted_list] # "" /\ Next

NextCreate == CreateQueue \/ CreateList \/ UseQueue

SpecCreate == InitCreate /\ [][NextCreate]_vars

(***************************************************************************)
(* Properties.                                                             *)
(***************************************************************************)
Q == queue.sorted_list
\* The payloads of list l in traversal order.
Payloads(h, l) == [i \in 1..Len(h.dll[l]) |-> h.data[h.dll[l][i]]]
IndexOf(s, n) == CHOOSE i \in 1..Len(s) : s[i] = n
\* Every earlier element compares at or below every later one.
Sorted(h, l) ==
    \A i \in 1..Len(h.dll[l]) : \A j \in 1..Len(h.dll[l]) :
        i < j => Compare(cmp[l], Payloads(h, l)[i], Payloads(h, l)[j]) <= 0

\* C1: a Dequeue on a non-empty queue removes the front element and returns
\* its payload, and no element that was queued has a strictly higher
\* priority than it (Compare(returned, other) > 0 for no other element).
C1_DequeueHighestPriority ==
    (call.op = "Dequeue" /\ old.dll[Q] # <<>>) =>
        /\ fault = "none"
        /\ call.ret = old.data[Head(old.dll[Q])]
        /\ dll[Q] = Tail(old.dll[Q])
        /\ \A n \in Range(old.dll[Q]) : ~(Compare(cmp[Q], call.ret, old.data[n]) > 0)

\* Under numeric ascending priority a Dequeue returned 1 and left 2 then 3.
C1_Witness ==
    /\ call.op = "Dequeue"
    /\ cmp[Q] = "asc"
    /\ call.ret = 1
    /\ Payloads(Heap, Q) = <<2, 3>>

\* C2 as stated: any element compares at or above (>= 0) the element right
\* after it.
C2_AdjacentNonNegative ==
    \A l \in Lists : \A i \in 1..(Len(dll[l]) - 1) :
        Compare(cmp[l], Payloads(Heap, l)[i], Payloads(Heap, l)[i + 1]) >= 0

\* C2, amended: after any sequence of Insert, Remove, PopFront, PopBack and
\* Merge any element compares at or below (<= 0) the element right after it.
C2_SortInvariant ==
    \A l \in Lists : \A i \in 1..(Len(dll[l]) - 1) :
        Compare(cmp[l], Payloads(Heap, l)[i], Payloads(Heap, l)[i + 1]) <= 0

\* A Merge of two non-empty lists left a list whose payloads are not all equal.
C2_Witness ==
    /\ call.op = "Merge"
    /\ old.dll[1] # <<>> /\ old.dll[2] # <<>>
    /\ Len(dll[call.list]) = 3
    /\ Compare(cmp[call.list], Payloads(Heap, call.list)[1], Payloads(Heap, call.list)[3]) < 0

C4_TieFIFO ==
    (call.op = "Enqueue" /\ call.ret = 0) =>
        LET i == IndexOf(dll[Q], call.iter.iterator)
        IN  \A j \in 1..Len(dll[Q]) :
                (j # i /\ Compare(cmp[Q], data[dll[Q][j]], call.arg) = 0) => j < i

\* How often v occurs in the sequence s.
Occ(s, v) == Cardinality({i \in 1..Len(s) : s[i] = v})

\* C5: after Merge(dest, source) of two sorted lists, source is empty, dest
\* has as many elements as both had together, dest is sorted, and every
\* payload occurs in dest as often as it did in the two lists together.
C5_MergeCorrect ==
    call.op = "Merge" =>
        LET dest == call.list
            source == call.arg
        IN  /\ fault = "none"
            /\ dll[source] = <<>>
            /\ Len(dll[dest]) = Len(old.dll[dest]) + Len(old.dll[source])
            /\ Sorted(Heap, dest)
            /\ \A v \in Data :
                 Occ(Payloads(Heap, dest), v)
                   = Occ(Payloads(old, dest), v) + Occ(Payloads(old, source), v)

\* A Merge of two non-empty lists that took two splices.
C5_Witness ==
    /\ call.op = "Merge"
    /\ old.dll[1] # <<>> /\ old.dll[2] # <<>>
    /\ call.n >= 2

\* C6: after Merge(dest, source) the elements that were in dest are in dest
\* in the order they had, and so are the elements that were in source, each
\* with the payload it had.
C6_MergeKeepsOrder ==
    call.op = "Merge" =>
        LET dest == call.list
            source == call.arg
        IN  /\ SelectSeq(dll[dest], LAMBDA n : n \in Range(old.dll[dest])) = old.dll[dest]
            /\ SelectSeq(dll[dest], LAMBDA n : n \in Range(old.dll[source])) = old.dll[source]
            /\ \A n \in Range(dll[dest]) : data[n] = old.data[n]

\* A Merge into a non-empty dest of a source that began with two elements of
\* equal priority.
C6_Witness ==
    /\ call.op = "Merge"
    /\ old.dll[call.list] # <<>>
    /\ Len(old.dll[call.arg]) >= 2
    /\ Compare(cmp[call.list], Payloads(old, call.arg)[1], Payloads(old, call.arg)[2]) = 0

\* The places of list l whose payload satisfies the match function.
Matches(h, l, fn, parameter) ==
    {i \in 1..Len(h.dll[l]) : IsMatch(fn, Payloads(h, l)[i], parameter) # 0}
FirstMatch(h, l, fn, parameter) ==
    CHOOSE i \in Matches(h, l, fn, parameter) :
        \A k \in Matches(h, l, fn, parameter) : i <= k

\* C7: an Erase that some queued element matches removes the matching
\* element nearest the front and nothing else, returns its payload, lowers
\* Size by one and keeps the order of the other elements.
C7_EraseFound ==
    (call.op = "Erase" /\ Matches(old, Q, call.fn, call.arg) # {}) =>
        LET i == FirstMatch(old, Q, call.fn, call.arg)
        IN  /\ call.ret = Payloads(old, Q)[i]
            /\ dll[Q] = RemoveAt(old.dll[Q], i)
            /\ Payloads(Heap, Q) = RemoveAt(Payloads(old, Q), i)
            /\ PriorityQueueSize(Heap) = PriorityQueueSize(old) - 1

\* From 1, 2, 3 an Erase of 'equals 2' returned 2 and left 1 then 3.
C7_Witness ==
    /\ call.op = "Erase" /\ call.fn = "eq" /\ call.arg = 2
    /\ call.ret = 2
    /\ Payloads(old, Q) = <<1, 2, 3>>
    /\ Payloads(Heap, Q) = <<1, 3>>

\* C8: an Erase that no queued element matches returns the queue handle and
\* leaves the queue as it was.
C8_EraseNotFound ==
    (call.op = "Erase" /\ Matches(old, Q, call.fn, call.arg) = {}) =>
        /\ call.ret = QueueHandle
        /\ fault = "none"
        /\ dll = old.dll
        /\ data = old.data

\* An Erase found nothing in a queue of two elements.
C8_Witness ==
    /\ call.op = "Erase"
    /\ call.ret = QueueHandle
    /\ Len(dll[Q]) = 2

\* C9: Enqueue returns 0 exactly when the engine allocated the node.  When
\* it did not, the insertion returned the end of the list, Enqueue returned
\* non-zero and the queue is as it was; when it did, the insertion returned
\* a new position, not the end, that holds the payload, and the queue has
\* one element more.
C9_EnqueueResult ==
    call.op = "Enqueue" =>
        LET allocated == call.ok /\ FreeNodes(old) # {}
            end == SortedListEnd(Heap, Q)
        IN  /\ (call.ret = 0) <=> allocated
            /\ (call.ret = 0) <=> (Len(dll[Q]) = Len(old.dll[Q]) + 1)
            /\ ~allocated => /\ call.iter = end
                             /\ dll = old.dll
                             /\ data = old.data
            /\ allocated => /\ call.iter # end
                            /\ call.iter.iterator \in Range(dll[Q]) \ Range(old.dll[Q])
                            /\ data[call.iter.iterator] = call.arg
                            /\ RemoveAt(dll[Q], IndexOf(dll[Q], call.iter.iterator)) = old.dll[Q]

\* An Enqueue failed to allocate on a non-empty queue with free memory left.
C9_Witness ==
    /\ call.op = "Enqueue"
    /\ ~call.ok
    /\ call.ret # 0
    /\ dll[Q] # <<>>
    /\ FreeNodes(Heap) # {}

\* C10: a Dequeue on an empty queue returns NULL and leaves the queue empty
\* and usable.
C10_DequeueEmptyNull ==
    (call.op = "Dequeue" /\ old.dll[Q] = <<>>) =>
        /\ call.ret = NULLP
        /\ fault = "none"
        /\ dll[Q] = <<>>

\* C11: a Peek on an empty queue returns NULL, ends normally and leaves the
\* queue as it was.
C11_PeekEmptyNull ==
    (call.op = "Peek" /\ old.dll[Q] = <<>>) =>
        /\ call.ret = NULLP
        /\ fault = "none"
        /\ dll = old.dll
        /\ data = old.data

\* C12: a Peek on a non-empty queue ends normally and changes neither the
\* elements, their order, their payloads nor Size; it returns the payload the
\* next Dequeue returns, and the payload another Peek returns.
C12_PeekPure ==
    (call.op = "Peek" /\ old.dll[Q] # <<>>) =>
        /\ fault = "none"
        /\ dll = old.dll
        /\ data = old.data
        /\ PriorityQueueSize(Heap) = PriorityQueueSize(old)
        /\ call.ret = PriorityQueueDequeue(Heap, NoUB).ret
        /\ call.ret = PriorityQueuePeek(Heap, NoUB).ret

\* C12 over two calls: a Dequeue made right after a Peek on a non-empty queue
\* returns what the Peek returned, and a Peek made right after it does too.
C12_PeekThenDequeue ==
    [][(call.op = "Peek" /\ dll[Q] # <<>> /\ call'.op \in {"Dequeue", "Peek"})
          => call'.ret = call.ret]_vars

\* A Peek on a queue of three elements with different first and last
\* payloads.
C12_Witness ==
    /\ call.op = "Peek"
    /\ Len(dll[Q]) = 3
    /\ call.ret = Payloads(Heap, Q)[1]
    /\ Payloads(Heap, Q)[1] # Payloads(Heap, Q)[3]

\* C13: Clear ends, pops the front once for every element the queue held (not
\* at all when it was empty) and leaves the queue empty: IsEmpty is non-zero,
\* Size is 0, no node holds a payload, and an Enqueue then succeeds and makes
\* its payload the only element.
C13_ClearEmpties ==
    call.op = "Clear" =>
        /\ fault = "none"
        /\ call.n = Len(old.dll[Q])
        /\ PriorityQueueIsEmpty(Heap) # 0
        /\ PriorityQueueSize(Heap) = 0
        /\ dll[Q] = <<>>
        /\ \A n \in Range(old.dll[Q]) : data[n] = NULLP
        /\ \A x \in Data :
             LET r == PriorityQueueEnqueue(Heap, cmp[Q], x, TRUE)
             IN  r.ret = 0 /\ Payloads(r.h, Q) = <<x>>

\* A Clear of a queue of three elements.
C13_Witness ==
    /\ call.op = "Clear"
    /\ Len(old.dll[Q]) = 3
    /\ call.n = 3

\* C14: in every state the program has not crashed in, IsEmpty is non-zero
\* exactly when Size is 0, and Size is the number of successful Enqueues
\* minus the number of elements removed by Dequeue, Erase and Clear; so from
\* an empty queue IsEmpty is non-zero again only once as many elements were
\* removed as were enqueued.
C14_SizeIsNet ==
    fault = "none" =>
        /\ (PriorityQueueIsEmpty(Heap) # 0) <=> (PriorityQueueSize(Heap) = 0)
        /\ PriorityQueueSize(Heap) = net
        /\ (PriorityQueueIsEmpty(Heap) # 0) <=> (net = 0)

\* A Dequeue took the second last element: one more Enqueue than removals
\* is booked and the queue is not empty.
C14_Witness ==
    /\ call.op = "Dequeue"
    /\ Len(old.dll[Q]) = 2
    /\ net = 1
    /\ PriorityQueueIsEmpty(Heap) = 0

\* C15: in every state the program has not crashed in, every payload is held
\* by the queue as many times as it was enqueued and not yet returned by
\* Dequeue or Erase or dropped by Clear; a call changes no payload of an
\* element that stays; and the payload a Peek or a Dequeue of a non-empty
\* queue or a successful Erase returns is one the queue held.
C15_PayloadConservation ==
    fault = "none" =>
        /\ \A x \in Data : Occ(Payloads(Heap, Q), x) = held[x]
        /\ \A n \in Range(dll[Q]) \cap Range(old.dll[Q]) : data[n] = old.data[n]
        /\ \A n \in Range(dll[Q]) : data[n] \in Data
        /\ (call.op \in {"Peek", "Dequeue"} /\ old.dll[Q] # <<>>)
              => Occ(Payloads(old, Q), call.ret) > 0
        /\ (call.op = "Erase" /\ call.ret # QueueHandle)
              => Occ(Payloads(old, Q), call.ret) > 0

\* An Erase took one of two equal payloads out of a queue of three.
C15_Witness ==
    /\ call.op = "Erase"
    /\ call.ret \in Data
    /\ Len(old.dll[Q]) = 3
    /\ Occ(Payloads(old, Q), call.ret) = 2
    /\ held[call.ret] = 1

\* The least element of a non-empty set of places, and the place in list l of
\* the iterator the last call returned (one past the last element: the end).
Least(S) == CHOOSE i \in S : \A k \in S : i <= k
Returned == DLLIndex(Heap, call.iter.iterator)

\* C16: SortedListRemove(SortedListInsert(list, x)) leaves both lists with
\* the elements, order and payloads they had, and returns the position that
\* followed x: the first element e with Compare(e, x) >= 0, or the end of
\* the list when there is none.
C16_InsertRemoveRoundTrip ==
    call.op = "InsertThenRemove" =>
        LET l == call.list
            S == {i \in 1..Len(old.dll[l]) :
                     Compare(cmp[l], Payloads(old, l)[i], call.arg) >= 0}
        IN  /\ dll = old.dll
            /\ data = old.data
            /\ call.iter.list = l
            /\ call.iter.iterator = DLLAt(old, l, IF S = {} THEN Len(old.dll[l]) + 1 ELSE Least(S))

\* The round trip on a list of two elements returned the second of them: x
\* went between the two.
C16_Witness ==
    /\ call.op = "InsertThenRemove"
    /\ Len(dll[call.list]) = 2
    /\ Returned = 2
    /\ Compare(cmp[call.list], Payloads(Heap, call.list)[1], call.arg) < 0

\* C17: Remove of the element at place i of a list takes exactly that element
\* out, returns the position that followed it (the end when it was the last),
\* and leaves the other elements of both lists in their order with their
\* payloads.
C17_RemoveDetachesOne ==
    call.op = "Remove" =>
        LET l == call.list
            i == call.arg
        IN  /\ dll[l] = RemoveAt(old.dll[l], i)
            /\ \A k \in Lists \ {l} : dll[k] = old.dll[k]
            /\ \A n \in Range(dll[1]) \cup Range(dll[2]) : data[n] = old.data[n]
            /\ call.iter = Iter(DLLAt(old, l, i + 1), l)
            /\ call.iter = Iter(DLLAt(Heap, l, i), l)

\* A Remove of the middle element of a list of three returned the third.
C17_Witness ==
    /\ call.op = "Remove"
    /\ call.arg = 2
    /\ Len(old.dll[call.list]) = 3
    /\ call.iter.iterator > 0
    /\ Returned = 2

\* C18: Find returns a position of [from, to) whose payload compares equal
\* to the parameter when the range has one, and to when it has none.
C18_FindMatching ==
    call.op = "Find" =>
        LET l == call.list
            M == {i \in call.from..(call.to - 1) :
                     Compare(cmp[l], Payloads(Heap, l)[i], call.arg) = 0}
        IN  IF M = {} THEN Returned = call.to ELSE Returned \in M

C20_FindIfFirst ==
    call.op = "FindIf" =>
        LET l == call.list
            M == {i \in call.from..(call.to - 1) :
                     IsMatch(call.fn, Payloads(Heap, l)[i], call.arg) # 0}
        IN  /\ Returned = IF M = {} THEN call.to ELSE Least(M)
            /\ call.iter.list = l
            /\ call.n = (Returned - call.from) + (IF Returned = call.to THEN 0 ELSE 1)
            /\ call.from = call.to => (Returned = call.to /\ call.n = 0)
            /\ fault = "none"
            /\ dll = old.dll
            /\ data = old.data

\* A FindIf over the first two elements of a list of three returned the
\* second after two calls of the match function.
C20_Witness ==
    /\ call.op = "FindIf"
    /\ Len(dll[call.list]) = 3
    /\ call.from = 1
    /\ call.to = 3
    /\ Returned = 2
    /\ call.n = 2

\* C21: ForEach calls action once on each position of [from, to) in traversal
\* order up to and including the first position where it returns non-zero,
\* returns that status and calls it on no later position; it returns 0 when
\* action returned 0 on the whole range; the list is unchanged.
C21_ForEachInOrder ==
    call.op = "ForEach" =>
        LET l == call.list
            F == {i \in call.from..(call.to - 1) :
                     Action(call.fn, Payloads(Heap, l)[i], call.arg) # 0}
            last == IF F = {} THEN call.to - 1 ELSE Least(F)
        IN  /\ call.visited = SubSeq(dll[l], call.from, last)
            /\ call.ret = IF F = {} THEN 0
                          ELSE Action(call.fn, Payloads(Heap, l)[Least(F)], call.arg)
            /\ F # {} => call.ret # 0
            /\ fault = "none"
            /\ dll = old.dll
            /\ data = old.data

\* A ForEach over a list of three called action on the first two positions
\* and returned the non-zero status of the second.
C21_Witness ==
    /\ call.op = "ForEach"
    /\ Len(dll[call.list]) = 3
    /\ call.from = 1
    /\ call.to = 4
    /\ Len(call.visited) = 2
    /\ call.ret # 0

\* C22: in the validated build a range call (Find, FindIf, ForEach) whose from
\* and to belong to different lists fails an assertion, which ends the
\* program; it does not return.
C22_MixedRangeAsserts ==
    (call.op \in {"Find", "FindIf", "ForEach"} /\ call.tolist # call.list) =>
        fault = "abort"

\* C23: PriorityQueueCreate and SortedListCreate return NULL exactly when an
\* allocation they reached failed, and then no block the call allocated is
\* left and no list was made; when they succeed exactly the blocks of the
\* structure are allocated (for the queue: the queue, its one sorted list and
\* that list's one linked list), each pointed to by its owner, and the list
\* is empty with the comparator given.
C23_CreateClean ==
    call.op \in {"PriorityQueueCreate", "SortedListCreate"} =>
        LET isQueue == call.op = "PriorityQueueCreate"
            failed == ~(call.okQueue /\ call.okList /\ call.okDll)
        IN  /\ (call.ret = NullHandle) <=> failed
            /\ failed => /\ call.live = {}
                         /\ cmp[call.list] = ""
            /\ ~failed => /\ call.live = (IF isQueue THEN {"priority_queue"} ELSE {})
                                            \cup {"sorted_list", "dll"}
                          /\ call.ret = IF isQueue THEN "priority_queue" ELSE "sorted_list"
                          /\ call.sorted_list = "sorted_list"
                          /\ call.dll = "dll"
                          /\ cmp[call.list] = call.arg
                          /\ dll[call.list] = <<>>

\* A PriorityQueueCreate got the queue and the list and failed in DLLCreate.
C23_Witness ==
    /\ call.op = "PriorityQueueCreate"
    /\ call.okQueue /\ call.okList /\ ~call.okDll
    /\ call.ret = NullHandle
    /\ call.live = {}

\* C24: an Insert that got its node puts x right before the first element e
\* with Compare(e, x) >= 0, or at the end when there is none, so that exactly
\* the elements before x compare below it up to that place; the position
\* returned holds x, and the elements that were there keep their order and
\* payloads in both lists.
C24_InsertPosition ==
    (call.op = "Insert" /\ call.iter.iterator > 0) =>
        LET l == call.list
            S == {i \in 1..Len(old.dll[l]) :
                     Compare(cmp[l], Payloads(old, l)[i], call.arg) >= 0}
            k == IF S = {} THEN Len(old.dll[l]) + 1 ELSE Least(S)
        IN  /\ call.iter.list = l
            /\ dll[l] = InsertAt(old.dll[l], k, call.iter.iterator)
            /\ \A i \in 1..(k - 1) : Compare(cmp[l], Payloads(Heap, l)[i], call.arg) < 0
            /\ k <= Len(old.dll[l]) => Compare(cmp[l], Payloads(Heap, l)[k + 1], call.arg) >= 0
            /\ SortedListGetData(Heap, call.iter) = call.arg
            /\ \A m \in Lists \ {l} : dll[m] = old.dll[m]
            /\ \A n \in Range(old.dll[1]) \cup Range(old.dll[2]) : data[n] = old.data[n]

\* An Insert into a list of two skipped the first element and put x before
\* the second, which compares above it.
C24_Witness ==
    /\ call.op = "Insert"
    /\ Len(dll[call.list]) = 3
    /\ call.iter.iterator > 0
    /\ IndexOf(dll[call.list], call.iter.iterator) = 2
    /\ Compare(cmp[call.list], Payloads(Heap, call.list)[3], call.arg) > 0

\* Every element of both lists compares at or below every later element of
\* its list.
SortedAll == \A l \in Lists : Sorted(Heap, l)

\* The element the last call, a successful Insert, inserted, under the name
\* it has after the next call.
Newest == old'.dll[call.list][IndexOf(dll[call.list], call.iter.iterator)]

\* After a successful Insert of B and one more call that is one of ops, every
\* element that was there when B was inserted (every element but one that
\* the second call inserted) and stands before B in B's list compares
\* strictly below B.
StrictBeforeNewest(ops) ==
    (call.op = "Insert" /\ call.iter.iterator > 0 /\ call'.op \in ops /\ fault' = "none") =>
        \A m \in Lists : \A i \in 1..Len(dll'[m]) : \A j \in 1..Len(dll'[m]) :
            (i < j /\ dll'[m][j] = Newest
                   /\ dll'[m][i] \in Range(old'.dll[1]) \cup Range(old'.dll[2])) =>
                Compare(cmp[m], data'[dll'[m][i]], data'[Newest]) < 0

\* C25 as stated: after any sequence of Insert, Remove, PopFront, PopBack and
\* Merge every element compares at or below (<= 0) every later element of
\* its list, and strictly below (< 0) an element that was inserted after it.
C25_StrictBehindEarlier ==
    []SortedAll /\ [][StrictBeforeNewest({"Insert", "Remove", "PopFront", "PopBack", "Merge"})]_vars

\* C25, amended: every element compares at or below every later element of
\* its list; an Insert puts its element behind only elements that compare
\* strictly below it, and that stays so over Insert, Remove, PopFront and
\* PopBack.  (A Merge puts an element of source behind the elements of dest
\* that compare equal to it, whenever they were inserted.)
C25_SortedStrictInList ==
    /\ [](SortedAll /\ ((call.op = "Insert" /\ call.iter.iterator > 0) =>
             \A i \in 1..(IndexOf(dll[call.list], call.iter.iterator) - 1) :
                 Compare(cmp[call.list], Payloads(Heap, call.list)[i], call.arg) < 0))
    /\ [][StrictBeforeNewest({"Insert", "Remove", "PopFront", "PopBack"})]_vars

\* An Insert put its element behind two others.
C25_Witness ==
    /\ call.op = "Insert"
    /\ call.iter.iterator > 0
    /\ IndexOf(dll[call.list], call.iter.iterator) = 3

Steps ==
    MergeSteps(old, cmp[call.list], call.list, call.arg, DLLBegin(old, call.list),
               DLLBegin(old, call.arg), DLLBegin(old, call.arg))

\* C27: a Merge of two sorted lists with the same comparator ends with source
\* empty; every iteration of its outer loop splices a run [from, to) of at
\* least one element (to has advanced beyond from, or was set to the end of
\* source because runner was at the end of dest), and there are at most as
\* many iterations as source had elements.
C27_MergeTerminates ==
    call.op = "Merge" =>
        LET source == call.arg
        IN  /\ fault = "none"
            /\ dll[source] = <<>>
            /\ call.n = Len(Steps)
            /\ call.n <= Len(old.dll[source])
            /\ \A k \in 1..Len(Steps) :
                 LET s == Steps[k]
                 IN  /\ s.from = DLLBegin(s.h, source)
                     /\ s.to0 = s.from
                     /\ DLLIndex(s.h, s.to) > DLLIndex(s.h, s.from)
                     /\ s.runner = DLLEnd(s.h, call.list) => s.to = DLLEnd(s.h, source)
                     /\ Len(s.after.dll[source]) < Len(s.h.dll[source])

\* A Merge took as many iterations as source had elements, two.
C27_Witness ==
    /\ call.op = "Merge"
    /\ Len(old.dll[call.arg]) = 2
    /\ call.n = 2
    /\ dll[call.arg] = <<>>

\* C28: in every iteration of a Merge the cursor runner starts where the
\* iteration before left it, on the same element of dest (or the end), and
\* only moves forward; from is where to was and to only moves forward; the
\* run [from, to) goes right before runner, its elements in their order;
\* every element of the run compares strictly below the element at runner,
\* and the element before runner compares at or below the head of the run.
\* The last iteration leaves the lists the Merge returned.
C28_MergeCursors ==
    call.op = "Merge" =>
        LET dest == call.list
            source == call.arg
            c == cmp[call.list]
        IN  /\ Len(Steps) > 0 =>
                 /\ Steps[1].start = DLLBegin(old, dest)
                 /\ Steps[Len(Steps)].after = Heap
            /\ \A k \in 1..Len(Steps) :
                 LET s == Steps[k]
                     w == DLLIndex(s.h, s.runner)
                     b == DLLIndex(s.h, s.to)
                     run == SubSeq(s.h.dll[source], 1, b - 1)
                 IN  /\ w >= DLLIndex(s.h, s.start)
                     /\ s.runner = DLLEnd(s.h, dest) \/ s.runner \in Range(old.dll[dest])
                     /\ k < Len(Steps) =>
                          /\ Steps[k + 1].start = s.runner
                          /\ Steps[k + 1].from = s.to
                          /\ Steps[k + 1].h = s.after
                     /\ DLLIndex(s.h, s.from) = 1
                     /\ b > 1
                     /\ s.after.dll[dest] = SubSeq(s.h.dll[dest], 1, w - 1) \o run
                                              \o SubSeq(s.h.dll[dest], w, Len(s.h.dll[dest]))
                     /\ s.after.dll[source] = SubSeq(s.h.dll[source], b, Len(s.h.dll[source]))
                     /\ s.after.data = s.h.data
                     /\ s.runner # DLLEnd(s.h, dest) =>
                          \A e \in Range(run) :
                              Compare(c, s.h.data[e], s.h.data[s.runner]) < 0
                     /\ w > 1 =>
                          Compare(c, s.h.data[s.h.dll[dest][w - 1]], s.h.data[Head(run)]) <= 0

\* A Merge took two iterations: the first put a run before an element of
\* dest, and in the second runner moved forward from that element.
C28_Witness ==
    /\ call.op = "Merge"
    /\ Len(Steps) = 2
    /\ Steps[1].runner > 0
    /\ DLLIndex(Steps[2].h, Steps[2].runner) > DLLIndex(Steps[2].h, Steps[2].start)

\* The pairs of an element of dest and an element of source, as they were
\* before the Merge that was the last call, that compare equal.
Ties ==
    {p \in Range(old.dll[call.list]) \X Range(old.dll[call.arg]) :
        Compare(cmp[call.list], old.data[p[1]], old.data[p[2]]) = 0}

\* The lists the caller gets when it moves the elements of source, from the
\* first to the last, each to the place Insert gives its payload in dest.
ByInsert == SortedListMerge_ByInsert(old, cmp[call.list], call.list, call.arg).h

\* C29: a Merge puts every element of source behind every element of dest
\* that compares equal to it, Insert puts it before every such element, and
\* so whenever an element of dest and an element of source compare equal the
\* Merge and the insertion of the elements of source one by one give dest
\* different orders of its elements.
C29_MergeInsertTies ==
    call.op = "Merge" =>
        LET dest == call.list
        IN  /\ \A p \in Ties :
                 /\ IndexOf(dll[dest], p[1]) < IndexOf(dll[dest], p[2])
                 /\ IndexOf(ByInsert.dll[dest], p[2]) < IndexOf(ByInsert.dll[dest], p[1])
            /\ Range(ByInsert.dll[dest]) = Range(dll[dest])
            /\ Ties # {} => ByInsert.dll[dest] # dll[dest]

\* A Merge put a payload of source behind a different payload of dest that
\* compares equal to it.
C29_Witness ==
    /\ call.op = "Merge"
    /\ \E p \in Ties : /\ data[p[1]] # data[p[2]]
                        /\ IndexOf(dll[call.list], p[2]) = IndexOf(dll[call.list], p[1]) + 1

\* C30: a Merge of an empty source calls DLLSplice not once and leaves both
\* lists and every payload as they were; a Merge into an empty dest, and any
\* iteration of a Merge that finds runner at the end of dest, moves all that
\* is left of source to the end of dest in one DLLSplice, in its order, and
\* that iteration is the last: source is empty after it.
C30_MergeEdges ==
    call.op = "Merge" =>
        LET dest == call.list
            source == call.arg
        IN  /\ old.dll[source] = <<>> =>
                 call.n = 0 /\ dll = old.dll /\ data = old.data
            /\ (old.dll[dest] = <<>> /\ old.dll[source] # <<>>) =>
                 /\ call.n = 1
                 /\ dll[dest] = old.dll[source]
                 /\ dll[source] = <<>>
                 /\ data = old.data
            /\ \A i \in 1..Len(Steps) :
                 Steps[i].runner = DLLEnd(Steps[i].h, dest) =>
                     /\ i = Len(Steps)
                     /\ call.n = i
                     /\ Steps[i].to = DLLEnd(Steps[i].h, source)
                     /\ Steps[i].after.dll[dest] = Steps[i].h.dll[dest] \o Steps[i].h.dll[source]
                     /\ Steps[i].after.dll[source] = <<>>
                     /\ dll = Steps[i].after.dll
                     /\ data = old.data

\* A Merge moved a source of two or more elements into an empty dest.
C30_Witness ==
    /\ call.op = "Merge"
    /\ old.dll[call.list] = <<>>
    /\ Len(old.dll[call.arg]) >= 2
    /\ Len(dll[call.list]) >= 2

\* A Merge of an empty source into a dest that holds elements.
C30_EmptySource ==
    /\ call.op = "Merge"
    /\ old.dll[call.arg] = <<>>
    /\ Len(dll[call.list]) >= 2

\* A Merge whose second iteration found runner at the end of a dest that
\* held an element before the Merge.
C30_RunnerAtEnd ==
    /\ call.op = "Merge"
    /\ Len(Steps) = 2
    /\ Steps[2].runner = DLLEnd(Steps[2].h, call.list)
    /\ old.dll[call.list] # <<>>

\* C31: a PopFront and a PopBack of a non-empty sorted list take out one
\* element, the first and the last in traversal order, and return its
\* payload; the elements that stay keep their order and their payloads, so
\* the list stays sorted, the other list is as it was, and PopFront returns
\* what GetData(Begin) gave right before the call.
C31_PopEnds ==
    (call.op \in {"PopFront", "PopBack"} /\ old.dll[call.list] # <<>>) =>
        LET l == call.list
            was == old.dll[l]
            popped == IF call.op = "PopFront" THEN was[1] ELSE was[Len(was)]
        IN  /\ fault = "none"
            /\ dll[l] = IF call.op = "PopFront" THEN Tail(was)
                                                ELSE SubSeq(was, 1, Len(was) - 1)
            /\ call.ret = old.data[popped]
            /\ call.op = "PopFront" =>
                   call.ret = SortedListGetData(old, SortedListBegin(old, l))
            /\ \A n \in Range(dll[l]) : data[n] = old.data[n]
            /\ \A m \in Lists \ {l} :
                   /\ dll[m] = old.dll[m]
                   /\ \A n \in Range(dll[m]) : data[n] = old.data[n]
            /\ Sorted(Heap, l)

\* A PopBack of a list whose first and last payloads differ returned the
\* last one and left the elements before it.
C31_Witness ==
    /\ call.op = "PopBack"
    /\ Len(old.dll[call.list]) = 3
    /\ old.data[old.dll[call.list][1]] # old.data[old.dll[call.list][3]]
    /\ call.ret = old.data[old.dll[call.list][3]]
    /\ Len(dll[call.list]) = 2

\* A PopFront of a list whose first and last payloads differ returned the
\* first one.
C31_PopFrontCase ==
    /\ call.op = "PopFront"
    /\ Len(old.dll[call.list]) = 3
    /\ old.data[old.dll[call.list][1]] # old.data[old.dll[call.list][3]]
    /\ call.ret = old.data[old.dll[call.list][1]]
    /\ Len(dll[call.list]) = 2

\* There is a range [from, to) of one list, in the state of the last call,
\* and an action for which a ForEach of the validated build calls the action
\* and returns the status -1.
RefusedRange ==
    \E k \in Lists : \E i \in 1..Len(dll[k]) : \E j \in (i + 1)..(Len(dll[k]) + 1) :
        \E fn \in StatusFuncs, arg \in Data :
            LET r == SortedListForEach(Heap, FALSE, Iter(DLLAt(Heap, k, i), k),
                                       Iter(DLLAt(Heap, k, j), k), fn, arg)
            IN  r.ret = 0 - 1 /\ r.visited # <<>> /\ ~r.ub

C32_ReleaseWalk ==
    /\ call.op = "ForEach"
    /\ call.tolist # call.list
    /\ call.ndebug
    /\ call.visited # <<>>
    /\ fault = "crash"

\* A ForEach over a range of one list returned -1 from its action.
C32_ActionRefused ==
    /\ call.op = "ForEach"
    /\ call.tolist = call.list
    /\ ~call.ndebug
    /\ call.ret = 0 - 1
    /\ call.visited # <<>>

====
